---- MODULE Spec2Model ----
(***************************************************************************)
(* Model of the algorithmic engine of OS_Algorithm:                        *)
(*   src/src/components/deadlock/BankersAlgorithm.js                       *)
(*     isSafeState, resourceRequest, runBankersAlgorithm   (lines 16-213)  *)
(*     BankersInput, the form that collects the data      (lines 449-617)  *)
(*     firstFit, nextFit, bestFit, worstFit               (lines 787-1013) *)
(*                                                                         *)
(* JavaScript arrays are objects with identity: a callee that writes to an *)
(* array it was handed changes the caller's array.  Arrays that are handed *)
(* across a call are therefore kept in a heap (address -> elements), and a *)
(* variable of the program holds an address.  A matrix is an array of the  *)
(* addresses of its rows.  Arrays created and used inside one function     *)
(* only (need, finished, safeSequence) are kept by value.                  *)
(*                                                                         *)
(* JavaScript indexes from 0, TLA+ sequences from 1: At(a, i) reads the    *)
(* element the code calls a[i].  Process ids and resource indices in the   *)
(* results are the code's 0-based numbers.                                 *)
(***************************************************************************)
EXTENDS Integers, Sequences, FiniteSets, TLC

\* ------------------------------------------------------------------ bounds
MaxProcs == 3
MaxRes == 2
MaxVal == 1
MaxRunProcs == 2
MaxReqs == 2
MaxBlocks == 3
MaxFitProcs == 3
MaxSize == 2
MaxFormProcs == 3
MaxFormRes == 3
MaxFormReqs == 2
MaxFormVal == 1
MaxFilled == 2

VARIABLES
  heap,   \* the arrays handed across calls: address -> elements
  data,   \* the caller's arguments: addresses of available, max, allocation; the requests
  call,   \* the engine function the caller invokes
  pc,     \* the position of the running code
  iss,    \* the locals of the running isSafeState call, with the number of
          \* passes of its while loop so far and the count when the last began
  rr,     \* the locals of the running resourceRequest call
  run,    \* the locals of the running runBankersAlgorithm call
  fit,    \* the locals of the running firstFit, nextFit, bestFit or worstFit call
  ret,    \* the last call that returned: its name, its arguments' values at entry, its result
  form    \* the state of the BankersInput form, and what its last event handed out

vars == <<heap, data, call, pc, iss, rr, run, fit, ret, form>>

\* --------------------------------------------------------- arrays and heap
At(a, i) == a[i + 1]

Vec(h, a) == h[a]

Mat(h, a) == [i \in 1..Len(h[a]) |-> h[h[a][i]]]

\* [...a] with the copy left out: the same array under a second name.
SpreadAlias(h, a) == [heap |-> h, ref |-> a]

\* [...a]: a new array holding a's elements.
SpreadCopy(h, a) == [heap |-> Append(h, h[a]), ref |-> Len(h) + 1]

\* A copy of the outer array only: the rows stay shared with m.
JsonCopyShallow(h, m) == [heap |-> Append(h, h[m]), ref |-> Len(h) + 1]

\* JSON.parse(JSON.stringify(m)) of an array of arrays of integers, or of an
\* array of {id, size} objects with integer fields: new rows (objects) with
\* the same integers, and a new outer array of the new rows.
JsonCopy(h, m) ==
  LET n == Len(h[m])
      rows == [i \in 1..n |-> h[h[m][i]]]
      outer == [i \in 1..n |-> Len(h) + i]
  IN  [heap |-> Append(h \o rows, outer), ref |-> Len(h) + n + 1]

NoFrame == [live |-> FALSE]

\* An uncaught TypeError, raised by a property read of undefined.  No
\* function of the engine has a try/catch: the running calls are abandoned,
\* their arrays with them, and the exception reaches the caller.
Throw(thrower, in, base) ==
  /\ ret' = [fn |-> "TypeError", thrower |-> thrower, in |-> in]
  /\ heap' = SubSeq(heap, 1, base)
  /\ pc' = "threw"
  /\ iss' = NoFrame
  /\ rr' = NoFrame
  /\ run' = NoFrame

\* ------------------------------------------------------------- isSafeState
\* need = maxDemand.map((process, i) => process.map((resource, j) => resource - currentAllocation[i][j]))
NeedMatrixClamped(maxDemand, currentAllocation) ==
  [i \in 1..Len(maxDemand) |->
     [j \in 1..Len(maxDemand[i]) |->
        IF maxDemand[i][j] < currentAllocation[i][j]
          THEN 0 ELSE maxDemand[i][j] - currentAllocation[i][j]]]

NeedMatrix(maxDemand, currentAllocation) ==
  [i \in 1..Len(maxDemand) |->
     [j \in 1..Len(maxDemand[i]) |-> maxDemand[i][j] - currentAllocation[i][j]]]

\* Line 24 (106): currentAllocation[i][j] where currentAllocation has no row
\* i reads a property of undefined.  The inner map calls back once per
\* element of row i of maxDemand, so an empty row reads nothing.
NeedThrows(maxDemand, currentAllocation) ==
  \E i \in 1..Len(maxDemand) : i > Len(currentAllocation) /\ Len(maxDemand[i]) > 0

\* The values of the arguments of isSafeState.
IssIn(h, av, mx, al) ==
  [available |-> Vec(h, av), max |-> Mat(h, mx), allocation |-> Mat(h, al)]

\* Lines 18-34: the copies, the need matrix and the tracking variables.
IssEnter(h, av, mx, al, retpc) ==
  LET c1 == SpreadCopy(h, av)
      c2 == JsonCopy(c1.heap, mx)
      c3 == JsonCopy(c2.heap, al)
      maxDemand == Mat(c3.heap, c2.ref)
  IN  [heap |-> c3.heap,
       frame |-> [in |-> [available |-> Vec(h, av), max |-> Mat(h, mx),
                          allocation |-> Mat(h, al)],
                  availableResources |-> c1.ref,
                  maxDemand |-> c2.ref,
                  currentAllocation |-> c3.ref,
                  need |-> NeedMatrix(maxDemand, Mat(c3.heap, c3.ref)),
                  numProcesses |-> Len(maxDemand),
                  numResources |-> Len(Vec(h, av)),
                  finished |-> [i \in 1..Len(maxDemand) |-> FALSE],
                  safeSequence |-> <<>>,
                  count |-> 0,
                  found |-> FALSE,
                  i |-> 0,
                  passes |-> 0,
                  countBefore |-> 0,
                  base |-> Len(h),
                  retpc |-> retpc]]

\* Lines 46-52: need[i][j] <= availableResources[j] for every j.
CanAllocateAny(f, h, i) ==
  \E j \in 0..(f.numResources - 1) :
     ~(At(At(f.need, i), j) > At(Vec(h, f.availableResources), j))

CanAllocate(f, h, i) ==
  \A j \in 0..(f.numResources - 1) :
     ~(At(At(f.need, i), j) > At(Vec(h, f.availableResources), j))

\* Lines 57-59: availableResources[j] += currentAllocation[i][j] for every j.
ReleaseNothing(f, h, i) == h

ReleaseTwice(f, h, i) ==
  [h EXCEPT ![f.availableResources] =
     [j \in 1..Len(@) |->
        IF j <= f.numResources
          THEN @[j] + 2 * At(Mat(h, f.currentAllocation), i)[j]
          ELSE @[j]]]

Release(f, h, i) ==
  [h EXCEPT ![f.availableResources] =
     [j \in 1..Len(@) |->
        IF j <= f.numResources
          THEN @[j] + At(Mat(h, f.currentAllocation), i)[j]
          ELSE @[j]]]

\* Line 74: finished.map((status, index) => !status ? index : null).filter(p => p !== null)
UnfinishedAll(finished) == [k \in 1..Len(finished) |-> k - 1]

Unfinished(finished) ==
  SelectSeq([k \in 1..Len(finished) |-> k - 1], LAMBDA p : ~At(finished, p))

\* A return of isSafeState: its locals are dropped, the caller goes on.
IssReturn(out) ==
  /\ ret' = [fn |-> "isSafeState", in |-> iss.in, out |-> out]
  /\ heap' = SubSeq(heap, 1, iss.base)
  /\ pc' = iss.retpc
  /\ iss' = NoFrame

\* Line 37, the while test; lines 80-84 when it fails.
IssWhile ==
  /\ pc = "iss_while"
  /\ IF iss.count < iss.numProcesses
       THEN /\ iss' = [iss EXCEPT !.found = FALSE, !.i = 0,
                                   !.passes = @ + 1, !.countBefore = iss.count]
            /\ pc' = "iss_for"
            /\ UNCHANGED <<heap, ret>>
       ELSE IssReturn([safe |-> TRUE, safeSequence |-> iss.safeSequence,
                       unfinishedProcesses |-> <<>>])
  /\ UNCHANGED <<form, fit, data, call, rr, run>>

\* Line 41, i++: after process i has finished the same pass goes on with
\* process i + 1 (no break, no restart at process 0).
EndsPass(f) == f.numProcesses

RestartsScan(f) == 0

NextInPass(f) == f.i + 1

\* Lines 61-65, and the i++ of line 41: process i is marked finished,
\* appended to the safe sequence and counted.
FinishUncounted(f, i) ==
  [f EXCEPT !.finished[i + 1] = TRUE,
            !.safeSequence = Append(@, i),
            !.found = TRUE,
            !.i = NextInPass(f)]

Finish(f, i) ==
  [f EXCEPT !.finished[i + 1] = TRUE,
            !.safeSequence = Append(@, i),
            !.count = @ + 1,
            !.found = TRUE,
            !.i = NextInPass(f)]

\* Lines 41-67: one iteration of the for loop, for process i.
IssExamine ==
  /\ pc = "iss_for"
  /\ iss.i < iss.numProcesses
  /\ IF At(iss.finished, iss.i)
       THEN /\ iss' = [iss EXCEPT !.i = @ + 1]
            /\ UNCHANGED heap
       ELSE IF CanAllocate(iss, heap, iss.i)
         THEN /\ heap' = Release(iss, heap, iss.i)
              /\ iss' = Finish(iss, iss.i)
         ELSE /\ iss' = [iss EXCEPT !.i = @ + 1]
              /\ UNCHANGED heap
  /\ UNCHANGED <<form, fit, data, call, pc, rr, run, ret>>

\* Lines 69-77: the end of a pass.
IssPassEnd ==
  /\ pc = "iss_for"
  /\ iss.i >= iss.numProcesses
  /\ IF ~iss.found
       THEN IssReturn([safe |-> FALSE, safeSequence |-> <<>>,
                       unfinishedProcesses |-> Unfinished(iss.finished)])
       ELSE /\ pc' = "iss_while"
            /\ UNCHANGED <<heap, iss, ret>>
  /\ UNCHANGED <<form, fit, data, call, rr, run>>

\* The caller calls isSafeState(available, max, allocation).
CallIsSafeState ==
  /\ pc = "start"
  /\ call = "isSafeState"
  /\ IF NeedThrows(Mat(heap, data.max), Mat(heap, data.allocation))
       THEN Throw("isSafeState",
                  IssIn(heap, data.available, data.max, data.allocation), Len(heap))
       ELSE LET e == IssEnter(heap, data.available, data.max, data.allocation, "done")
            IN  /\ heap' = e.heap
                /\ iss' = e.frame
                /\ pc' = "iss_while"
                /\ UNCHANGED <<rr, run, ret>>
  /\ UNCHANGED <<form, fit, data, call>>

\* --------------------------------------------------------- resourceRequest
\* The values of the arguments of resourceRequest.
RrIn(h, av, mx, al, processId, request) ==
  [available |-> Vec(h, av), max |-> Mat(h, mx), allocation |-> Mat(h, al),
   processId |-> processId, request |-> request]

\* Lines 100-109: the copies, the need matrix, numResources.
RrEnter(h, av, mx, al, processId, request, retpc) ==
  LET c1 == SpreadCopy(h, av)
      c2 == JsonCopy(c1.heap, mx)
      c3 == JsonCopy(c2.heap, al)
  IN  [heap |-> c3.heap,
       frame |-> [in |-> [available |-> Vec(h, av), max |-> Mat(h, mx),
                          allocation |-> Mat(h, al), processId |-> processId,
                          request |-> request],
                  availableResources |-> c1.ref,
                  maxDemand |-> c2.ref,
                  currentAllocation |-> c3.ref,
                  need |-> NeedMatrix(Mat(c3.heap, c2.ref), Mat(c3.heap, c3.ref)),
                  numResources |-> Len(Vec(h, av)),
                  processId |-> processId,
                  request |-> request,
                  base |-> Len(h),
                  retpc |-> retpc]]

\* The index a for loop over j = 0, 1, ... returns at: the first one that offends.
LastIndex(S) == CHOOSE j \in S : \A k \in S : k <= j

FirstIndex(S) == CHOOSE j \in S : \A k \in S : j <= k

\* Line 113: need[processId][j] where need has no row processId reads a
\* property of undefined, in the first iteration of the loop.
ClaimThrows(f) ==
  f.numResources > 0 /\ f.processId \notin 0..(Len(f.need) - 1)

\* The heap as the caller of the outermost running call left it.
CallerBase == IF call = "runBankersAlgorithm" THEN run.base ELSE rr.base

\* Line 113: the resource types j with request[j] > need[processId][j].
ExceedsClaim(f) ==
  {j \in 0..(f.numResources - 1) :
     At(f.request, j) > At(At(f.need, f.processId), j)}

\* Line 124: the resource types j with request[j] > availableResources[j].
ExceedsAvailableOrEqual(f, h) ==
  {j \in 0..(f.numResources - 1) :
     At(f.request, j) >= At(Vec(h, f.availableResources), j)}

ExceedsAvailable(f, h) ==
  {j \in 0..(f.numResources - 1) :
     At(f.request, j) > At(Vec(h, f.availableResources), j)}

\* Lines 134-138 on the heap: availableResources[j] -= request[j] and
\* currentAllocation[processId][j] += request[j] for every j < numResources.
TentativeAvailableOnly(f, h) ==
  [h EXCEPT ![f.availableResources] =
       [j \in 1..Len(@) |-> IF j <= f.numResources THEN @[j] - f.request[j] ELSE @[j]]]

Tentative(f, h) ==
  [h EXCEPT ![f.availableResources] =
       [j \in 1..Len(@) |-> IF j <= f.numResources THEN @[j] - f.request[j] ELSE @[j]],
            ![At(Vec(h, f.currentAllocation), f.processId)] =
       [j \in 1..Len(@) |-> IF j <= f.numResources THEN @[j] + f.request[j] ELSE @[j]]]

\* Line 137: need[processId][j] -= request[j].
TentativeNeed(f) ==
  [f.need EXCEPT ![f.processId + 1] =
       [j \in 1..Len(@) |-> IF j <= f.numResources THEN @[j] - f.request[j] ELSE @[j]]]

\* Lines 143-154: the result built from the safety check's.
DecisionGrantsUnsafe(safetyResult) ==
  [granted |-> TRUE, safeSequence |-> safetyResult.safeSequence]

Decision(safetyResult) ==
  IF safetyResult.safe
    THEN [granted |-> TRUE, safeSequence |-> safetyResult.safeSequence]
    ELSE [granted |-> FALSE, reason |-> "Resulting state would be unsafe",
          unsafeProcesses |-> safetyResult.unfinishedProcesses]

\* A return of resourceRequest.
RrReturn(out) ==
  /\ ret' = [fn |-> "resourceRequest", in |-> rr.in, out |-> out]
  /\ heap' = SubSeq(heap, 1, rr.base)
  /\ pc' = rr.retpc
  /\ rr' = NoFrame

\* Lines 111-120: the claim check.
RrClaimCheck ==
  /\ pc = "rr_claim"
  /\ IF ClaimThrows(rr)
       THEN Throw("resourceRequest", rr.in, CallerBase)
       ELSE /\ IF ExceedsClaim(rr) # {}
                 THEN RrReturn([granted |-> FALSE,
                                reason |-> "Request exceeds maximum claim",
                                resourceIndex |-> FirstIndex(ExceedsClaim(rr))])
                 ELSE /\ pc' = "rr_avail"
                      /\ UNCHANGED <<heap, rr, ret>>
            /\ UNCHANGED <<iss, run>>
  /\ UNCHANGED <<form, fit, data, call>>

\* Lines 122-131: the availability check.
RrAvailCheck ==
  /\ pc = "rr_avail"
  /\ IF ExceedsAvailable(rr, heap) # {}
       THEN RrReturn([granted |-> FALSE, reason |-> "Resources not available",
                      resourceIndex |-> FirstIndex(ExceedsAvailable(rr, heap))])
       ELSE /\ pc' = "rr_alloc"
            /\ UNCHANGED <<heap, rr, ret>>
  /\ UNCHANGED <<form, fit, data, call, iss, run>>

\* Lines 133-141: the tentative allocation, then the call of
\* isSafeState(availableResources, maxDemand, currentAllocation).
RrAllocate ==
  /\ pc = "rr_alloc"
  /\ LET e == IssEnter(Tentative(rr, heap), rr.availableResources, rr.maxDemand,
                       rr.currentAllocation, "rr_decide")
     IN  /\ heap' = e.heap
         /\ iss' = e.frame
  /\ rr' = [rr EXCEPT !.need = TentativeNeed(rr)]
  /\ pc' = "iss_while"
  /\ UNCHANGED <<form, fit, data, call, run, ret>>

\* Lines 143-154: safetyResult has come back.
RrDecide ==
  /\ pc = "rr_decide"
  /\ RrReturn(Decision(ret.out))
  /\ UNCHANGED <<form, fit, data, call, iss, run>>

\* The caller calls resourceRequest(available, max, allocation, processId, request).
CallResourceRequest ==
  /\ pc = "start"
  /\ call = "resourceRequest"
  /\ LET q == data.requests[1]
     IN  IF NeedThrows(Mat(heap, data.max), Mat(heap, data.allocation))
           THEN Throw("resourceRequest",
                      RrIn(heap, data.available, data.max, data.allocation,
                           q.processId, q.request), Len(heap))
           ELSE LET e == RrEnter(heap, data.available, data.max, data.allocation,
                                 q.processId, q.request, "done")
                IN  /\ heap' = e.heap
                    /\ rr' = e.frame
                    /\ pc' = "rr_claim"
                    /\ UNCHANGED <<iss, run, ret>>
  /\ UNCHANGED <<form, fit, data, call>>

\* ----------------------------------------------------- runBankersAlgorithm
\* Lines 197-200 on the heap: currentAvailable[j] -= request[j] and
\* currentAllocation[processId][j] += request[j] for every j < request.length.
CommitNever(f, h, granted, processId, request) == h

CommitAvailableOnly(f, h, granted, processId, request) ==
  IF granted
    THEN [h EXCEPT ![f.currentAvailable] =
             [j \in 1..Len(@) |-> IF j <= Len(request) THEN @[j] - request[j] ELSE @[j]]]
    ELSE h

Commit(f, h, granted, processId, request) ==
  IF granted
    THEN [h EXCEPT ![f.currentAvailable] =
             [j \in 1..Len(@) |-> IF j <= Len(request) THEN @[j] - request[j] ELSE @[j]],
                  ![At(Vec(h, f.currentAllocation), processId)] =
             [j \in 1..Len(@) |-> IF j <= Len(request) THEN @[j] + request[j] ELSE @[j]]]
    ELSE h

\* Lines 205-212: the result object.
RunResult(initialSafetyCheck, requestResults) ==
  [initialState |-> [safe |-> initialSafetyCheck.safe,
                     safeSequence |-> initialSafetyCheck.safeSequence,
                     unfinishedProcesses |-> initialSafetyCheck.unfinishedProcesses],
   requestResults |-> requestResults]

RunReturn(initialSafetyCheck, requestResults) ==
  /\ ret' = [fn |-> "runBankersAlgorithm", in |-> run.in,
             out |-> RunResult(initialSafetyCheck, requestResults)]
  /\ heap' = SubSeq(heap, 1, run.base)
  /\ pc' = "done"
  /\ run' = NoFrame

\* Line 172: whether the requests are replayed.
ReplaysAlways(initialSafetyCheck, requests) == Len(requests) > 0

Replays(initialSafetyCheck, requests) ==
  initialSafetyCheck.safe /\ Len(requests) > 0

\* Lines 163-167: the caller calls runBankersAlgorithm(data); it calls
\* isSafeState(available, max, allocation).
CallRunBankersAlgorithm ==
  /\ pc = "start"
  /\ call = "runBankersAlgorithm"
  /\ IF NeedThrows(Mat(heap, data.max), Mat(heap, data.allocation))
       THEN Throw("isSafeState",
                  IssIn(heap, data.available, data.max, data.allocation), Len(heap))
       ELSE /\ run' = [in |-> [available |-> Vec(heap, data.available),
                               max |-> Mat(heap, data.max),
                               allocation |-> Mat(heap, data.allocation),
                               requests |-> data.requests],
                       base |-> Len(heap)]
            /\ LET e == IssEnter(heap, data.available, data.max, data.allocation,
                                 "run_init")
               IN  /\ heap' = e.heap
                   /\ iss' = e.frame
            /\ pc' = "iss_while"
            /\ UNCHANGED <<rr, ret>>
  /\ UNCHANGED <<form, fit, data, call>>

\* Lines 169-175, and 205-212 when the requests are not replayed.
RunAfterInitial ==
  /\ pc = "run_init"
  /\ IF Replays(ret.out, data.requests)
       THEN LET c1 == SpreadCopy(heap, data.available)
                c2 == JsonCopy(c1.heap, data.allocation)
            IN  /\ heap' = c2.heap
                /\ run' = [in |-> run.in, base |-> run.base,
                           initialSafetyCheck |-> ret.out,
                           requestResults |-> <<>>,
                           currentAvailable |-> c1.ref,
                           currentAllocation |-> c2.ref,
                           k |-> 0]
                /\ pc' = "run_loop"
                /\ UNCHANGED ret
       ELSE RunReturn(ret.out, <<>>)
  /\ UNCHANGED <<form, fit, data, call, iss, rr>>

\* Lines 178-187: the next request is handed to resourceRequest.  Its need
\* matrix is built from max and a copy of the allocation the initial
\* isSafeState call has already built one from.
RunRequest ==
  /\ pc = "run_loop"
  /\ run.k < Len(data.requests)
  /\ LET req == At(data.requests, run.k)
         e == RrEnter(heap, run.currentAvailable, data.max, run.currentAllocation,
                      req.processId, req.request, "run_push")
     IN  /\ heap' = e.heap
         /\ rr' = e.frame
  /\ pc' = "rr_claim"
  /\ UNCHANGED <<form, fit, data, call, iss, run, ret>>

\* Lines 189-201: the outcome is recorded and, if granted, committed.
RunPush ==
  /\ pc = "run_push"
  /\ LET req == At(data.requests, run.k)
     IN  /\ run' = [run EXCEPT
                      !.requestResults =
                         Append(@, ret.out @@ [processId |-> req.processId,
                                               request |-> req.request]),
                      !.k = @ + 1]
         /\ heap' = Commit(run, heap, ret.out.granted, req.processId, req.request)
  /\ pc' = "run_loop"
  /\ UNCHANGED <<form, fit, data, call, iss, rr, ret>>

\* Lines 205-212 after the loop.
RunDone ==
  /\ pc = "run_loop"
  /\ run.k >= Len(data.requests)
  /\ RunReturn(run.initialSafetyCheck, run.requestResults)
  /\ UNCHANGED <<form, fit, data, call, iss, rr>>

\* ------------------------------------ firstFit, nextFit, bestFit, worstFit
\* allocation[i] === null, and the -1 of bestBlockIndex and worstBlockIndex:
\* no block.
NoBlock == -1

\* Lines 789-794 (841-848, 905-910, 963-968): the copies, allocation,
\* internalFragmentation, lastAllocatedIndex.
FitEnter(h, algorithm, memoryBlocks, processes) ==
  LET c1 == JsonCopy(h, memoryBlocks)
      c2 == JsonCopy(c1.heap, processes)
  IN  [heap |-> c2.heap,
       frame |-> [in |-> [memoryBlocks |-> Mat(h, memoryBlocks),
                          processes |-> Mat(h, processes)],
                  algorithm |-> algorithm,
                  blocks |-> c1.ref,
                  procs |-> c2.ref,
                  allocation |-> [i \in 1..Len(Vec(h, processes)) |-> NoBlock],
                  internalFragmentation |-> [j \in 1..Len(Vec(h, memoryBlocks)) |-> 0],
                  lastAllocatedIndex |-> 0,
                  i |-> 0,
                  base |-> Len(h)]]

\* Lines 798-808: the first j from 0 with blocks[j].size >= size.
RECURSIVE FirstFitScanStrict(_, _, _)
FirstFitScanStrict(blocks, size, j) ==
  IF j >= Len(blocks) THEN NoBlock
  ELSE IF At(blocks, j).size > size THEN j
  ELSE FirstFitScanStrict(blocks, size, j + 1)

RECURSIVE FirstFitScan(_, _, _)
FirstFitScan(blocks, size, j) ==
  IF j >= Len(blocks) THEN NoBlock
  ELSE IF At(blocks, j).size >= size THEN j
  ELSE FirstFitScan(blocks, size, j + 1)

\* Lines 852-872: the circular scan from lastAllocatedIndex, over at most
\* blocks.length blocks.
RECURSIVE NextFitScan(_, _, _, _)
NextFitScan(blocks, size, j, blocksChecked) ==
  IF blocksChecked >= Len(blocks) THEN NoBlock
  ELSE IF At(blocks, j).size >= size THEN j
  ELSE NextFitScan(blocks, size, (j + 1) % Len(blocks), blocksChecked + 1)

\* Lines 914-923.  bestBlockSize is Infinity exactly while bestBlockIndex is
\* -1, and every size is below Infinity.
RECURSIVE BestFitScanLastFound(_, _, _, _, _)
BestFitScanLastFound(blocks, size, j, bestBlockIndex, bestBlockSize) ==
  IF j >= Len(blocks) THEN bestBlockIndex
  ELSE IF /\ At(blocks, j).size >= size
          /\ (bestBlockIndex = NoBlock \/ At(blocks, j).size <= bestBlockSize)
    THEN BestFitScanLastFound(blocks, size, j + 1, j, At(blocks, j).size)
    ELSE BestFitScanLastFound(blocks, size, j + 1, bestBlockIndex, bestBlockSize)

RECURSIVE BestFitScan(_, _, _, _, _)
BestFitScan(blocks, size, j, bestBlockIndex, bestBlockSize) ==
  IF j >= Len(blocks) THEN bestBlockIndex
  ELSE IF /\ At(blocks, j).size >= size
          /\ (bestBlockIndex = NoBlock \/ At(blocks, j).size < bestBlockSize)
    THEN BestFitScan(blocks, size, j + 1, j, At(blocks, j).size)
    ELSE BestFitScan(blocks, size, j + 1, bestBlockIndex, bestBlockSize)

\* Lines 972-981: worstBlockSize starts at -1.
RECURSIVE WorstFitScanLastFound(_, _, _, _, _)
WorstFitScanLastFound(blocks, size, j, worstBlockIndex, worstBlockSize) ==
  IF j >= Len(blocks) THEN worstBlockIndex
  ELSE IF At(blocks, j).size >= size /\ At(blocks, j).size >= worstBlockSize
    THEN WorstFitScanLastFound(blocks, size, j + 1, j, At(blocks, j).size)
    ELSE WorstFitScanLastFound(blocks, size, j + 1, worstBlockIndex, worstBlockSize)

RECURSIVE WorstFitScan(_, _, _, _, _)
WorstFitScan(blocks, size, j, worstBlockIndex, worstBlockSize) ==
  IF j >= Len(blocks) THEN worstBlockIndex
  ELSE IF At(blocks, j).size >= size /\ At(blocks, j).size > worstBlockSize
    THEN WorstFitScan(blocks, size, j + 1, j, At(blocks, j).size)
    ELSE WorstFitScan(blocks, size, j + 1, worstBlockIndex, worstBlockSize)

\* The block the running strategy gives process i, or NoBlock.
ChosenBlock(f, h) ==
  LET blocks == Mat(h, f.blocks)
      size == At(Mat(h, f.procs), f.i).size
  IN  CASE f.algorithm = "First Fit" -> FirstFitScan(blocks, size, 0)
        [] f.algorithm = "Next Fit" -> NextFitScan(blocks, size, f.lastAllocatedIndex, 0)
        [] f.algorithm = "Best Fit" -> BestFitScan(blocks, size, 0, NoBlock, 0)
        [] f.algorithm = "Worst Fit" -> WorstFitScan(blocks, size, 0, NoBlock, -1)

\* Line 805 (863, 929, 987): blocks[j].size = 0.
ConsumeBlockKept(f, h, j) == h

ConsumeBlock(f, h, j) == [h EXCEPT ![At(Vec(h, f.blocks), j)].size = 0]

\* Line 865: lastAllocatedIndex = (j + 1) % blocks.length, in nextFit only.
LastAllocatedIndexKept(f, h, j) == f.lastAllocatedIndex

LastAllocatedIndex(f, h, j) ==
  IF f.algorithm = "Next Fit" THEN (j + 1) % Len(Vec(h, f.blocks))
                              ELSE f.lastAllocatedIndex

\* Lines 811-823 (875-887, 933-945, 991-1003).
RECURSIVE SumSizes(_)
SumSizes(sizes) == IF sizes = <<>> THEN 0 ELSE Head(sizes) + SumSizes(Tail(sizes))

SizesOf(objects) == [k \in 1..Len(objects) |-> objects[k].size]

MaxOf(S) == CHOOSE m \in S : \A x \in S : x <= m

ExternalFragmentationOfOriginal(f, h) ==
  LET procs == Mat(h, f.procs)
      unallocatedProcesses == {k \in 1..Len(procs) : f.allocation[k] = NoBlock}
  IN  IF unallocatedProcesses # {}
        THEN LET largestUnallocatedSize == MaxOf({procs[k].size : k \in unallocatedProcesses})
             IN  SumSizes(SelectSeq(SizesOf(f.in.memoryBlocks),
                                    LAMBDA size : size > 0 /\ size < largestUnallocatedSize))
        ELSE 0

ExternalFragmentation(f, h) ==
  LET procs == Mat(h, f.procs)
      unallocatedProcesses == {k \in 1..Len(procs) : f.allocation[k] = NoBlock}
  IN  IF unallocatedProcesses # {}
        THEN LET largestUnallocatedSize == MaxOf({procs[k].size : k \in unallocatedProcesses})
             IN  SumSizes(SelectSeq(SizesOf(Mat(h, f.blocks)),
                                    LAMBDA size : size > 0 /\ size < largestUnallocatedSize))
        ELSE 0

\* Lines 825-832 (889-896, 947-954, 1005-1012): the result object.
FitResultIndices(f, h) ==
  [algorithm |-> f.algorithm,
   allocation |-> f.allocation,
   internalFragmentation |-> f.internalFragmentation,
   externalFragmentation |-> ExternalFragmentation(f, h),
   totalFragmentation |-> SumSizes(f.internalFragmentation) + ExternalFragmentation(f, h),
   unallocatedProcesses |->
     SelectSeq([k \in 1..Len(f.allocation) |-> k - 1],
               LAMBDA i : At(f.allocation, i) = NoBlock)]

FitResult(f, h) ==
  [algorithm |-> f.algorithm,
   allocation |-> f.allocation,
   internalFragmentation |-> f.internalFragmentation,
   externalFragmentation |-> ExternalFragmentation(f, h),
   totalFragmentation |-> SumSizes(f.internalFragmentation) + ExternalFragmentation(f, h),
   unallocatedProcesses |->
     LET procs == Mat(h, f.procs)
         ids == [k \in 1..Len(procs) |-> procs[k].id]
         unallocated == SelectSeq([k \in 1..Len(procs) |-> k],
                                  LAMBDA k : f.allocation[k] = NoBlock)
     IN  [n \in 1..Len(unallocated) |-> ids[unallocated[n]]]]

\* The caller calls firstFit, nextFit, bestFit or worstFit(memoryBlocks, processes).
CallFit ==
  /\ pc = "start"
  /\ call \in {"First Fit", "Next Fit", "Best Fit", "Worst Fit"}
  /\ LET e == FitEnter(heap, call, data.memoryBlocks, data.processes)
     IN  /\ heap' = e.heap
         /\ fit' = e.frame
  /\ pc' = "fit_for"
  /\ UNCHANGED <<form, data, call, iss, rr, run, ret>>

\* Lines 797-809 (851-873, 913-931, 971-989): one iteration of the for loop
\* over the processes, for process i.
FitPlace ==
  /\ pc = "fit_for"
  /\ fit.i < Len(Vec(heap, fit.procs))
  /\ LET j == ChosenBlock(fit, heap)
     IN  IF j # NoBlock
           THEN /\ fit' = [fit EXCEPT
                             !.allocation[fit.i + 1] = j,
                             !.internalFragmentation[j + 1] =
                                At(Mat(heap, fit.blocks), j).size
                                  - At(Mat(heap, fit.procs), fit.i).size,
                             !.lastAllocatedIndex = LastAllocatedIndex(fit, heap, j),
                             !.i = @ + 1]
                /\ heap' = ConsumeBlock(fit, heap, j)
           ELSE /\ fit' = [fit EXCEPT !.i = @ + 1]
                /\ UNCHANGED heap
  /\ UNCHANGED <<form, data, call, pc, iss, rr, run, ret>>

\* Lines 811-832 (875-896, 933-954, 991-1012): the fragmentation and the return.
FitFinish ==
  /\ pc = "fit_for"
  /\ fit.i >= Len(Vec(heap, fit.procs))
  /\ ret' = [fn |-> fit.algorithm, in |-> fit.in, out |-> FitResult(fit, heap)]
  /\ heap' = SubSeq(heap, 1, fit.base)
  /\ pc' = "done"
  /\ fit' = NoFrame
  /\ UNCHANGED <<form, data, call, iss, rr, run>>

\* ------------------------------------------------------------------ inputs
Vectors(r) == [1..r -> 0..MaxVal]

Matrices(p, r) == [1..p -> Vectors(r)]

Within(al, mx) == \A i \in DOMAIN mx : \A j \in DOMAIN mx[i] : al[i][j] <= mx[i][j]

Requests(p, r) == [processId : 0..(p - 1), request : Vectors(r)]

SeqsUpTo(S, n) == UNION {[1..k -> S] : k \in 0..n}

\* The caller's arrays, laid out in a heap: available, the rows of max, max,
\* the rows of allocation, allocation.
CallerHeap(av, mx, al) ==
  LET p == Len(mx)
  IN  <<av>> \o mx \o <<[i \in 1..p |-> 1 + i]>>
             \o al \o <<[i \in 1..Len(al) |-> p + 2 + i]>>

CallerData(mx, al, reqs) ==
  [available |-> 1, max |-> Len(mx) + 2, allocation |-> Len(mx) + Len(al) + 3,
   requests |-> reqs]

InitWith(c, av, mx, al, reqs) ==
  /\ call = c
  /\ heap = CallerHeap(av, mx, al)
  /\ data = CallerData(mx, al, reqs)
  /\ pc = "start"
  /\ iss = NoFrame
  /\ rr = NoFrame
  /\ run = NoFrame
  /\ fit = NoFrame
  /\ ret = [fn |-> "none"]
  /\ form = NoFrame

\* The state of the safe-state scenario: five processes, three resource types.
ScenarioMax == <<<<7, 5, 3>>, <<3, 2, 2>>, <<9, 0, 2>>, <<2, 2, 2>>, <<4, 3, 3>>>>

ScenarioAllocation == <<<<0, 1, 0>>, <<2, 0, 0>>, <<3, 0, 2>>, <<2, 1, 1>>, <<0, 0, 2>>>>

ScenarioRequests ==
  <<[processId |-> 1, request |-> <<1, 0, 2>>],
    [processId |-> 4, request |-> <<3, 3, 0>>],
    [processId |-> 0, request |-> <<0, 2, 0>>],
    [processId |-> 3, request |-> <<0, 1, 2>>]>>

InitScenario ==
  \/ InitWith("isSafeState", <<3, 3, 2>>, ScenarioMax, ScenarioAllocation, <<>>)
  \/ InitWith("isSafeState", <<0, 0, 0>>, <<<<1, 1, 1>>>>, <<<<0, 0, 0>>>>, <<>>)
  \/ InitWith("runBankersAlgorithm", <<3, 3, 2>>, ScenarioMax, ScenarioAllocation,
              ScenarioRequests)

InitSafety ==
  \E p \in 1..MaxProcs, r \in 1..MaxRes :
    \E av \in Vectors(r), mx \in Matrices(p, r) :
      \E al \in {a \in Matrices(p, r) : Within(a, mx)} :
        InitWith("isSafeState", av, mx, al, <<>>)

InitRequest ==
  \E p \in 1..MaxRunProcs, r \in 1..MaxRes :
    \E av \in Vectors(r), mx \in Matrices(p, r), q \in Requests(p, r) :
      \E al \in {a \in Matrices(p, r) : Within(a, mx)} :
        InitWith("resourceRequest", av, mx, al, <<q>>)

InitRun ==
  \E p \in 1..MaxRunProcs, r \in 1..MaxRes :
    \E av \in Vectors(r), mx \in Matrices(p, r), reqs \in SeqsUpTo(Requests(p, r), MaxReqs) :
      \E al \in {a \in Matrices(p, r) : Within(a, mx)} :
        InitWith("runBankersAlgorithm", av, mx, al, reqs)

\* States with allocation[i][j] > max[i][j] for some entry: the engine does
\* not validate its input.
InitOverAllocated ==
  \E p \in 1..MaxRunProcs, r \in 1..MaxRes :
    \E av \in Vectors(r), mx \in Matrices(p, r) :
      \E al \in {a \in Matrices(p, r) : ~Within(a, mx)} :
        \/ InitWith("isSafeState", av, mx, al, <<>>)
        \/ \E q \in Requests(p, r) : InitWith("resourceRequest", av, mx, al, <<q>>)

\* A processId that is no row index of max and allocation.
StrayRequests(p, r) == [processId : {-1, p}, request : Vectors(r)]

\* Arguments that do not fit each other: a request of a process that has no
\* row (on its own, or as the last request of a replay), and an allocation
\* matrix that lacks the last row of max.
InitMalformed ==
  \/ \E p \in 1..MaxRunProcs, r \in 1..MaxRes :
       \E av \in Vectors(r), mx \in Matrices(p, r), q \in StrayRequests(p, r) :
         \E al \in {a \in Matrices(p, r) : Within(a, mx)} :
           InitWith("resourceRequest", av, mx, al, <<q>>)
  \/ \E p \in 1..MaxRunProcs, r \in 1..(MaxRes - 1) :
       \E av \in Vectors(r), mx \in Matrices(p, r), q \in StrayRequests(p, r) :
         \E al \in {a \in Matrices(p, r) : Within(a, mx)} :
           \E reqs \in SeqsUpTo(Requests(p, r), MaxReqs - 1) :
             InitWith("runBankersAlgorithm", av, mx, al, Append(reqs, q))
  \/ \E p \in 1..MaxRunProcs, r \in 1..MaxRes :
       \E av \in Vectors(r), mx \in Matrices(p, r) :
         \E al \in {a \in Matrices(p - 1, r) : Within(a, SubSeq(mx, 1, p - 1))} :
           \/ InitWith("isSafeState", av, mx, al, <<>>)
           \/ InitWith("runBankersAlgorithm", av, mx, al, <<>>)
           \/ \E q \in Requests(p, r) : InitWith("resourceRequest", av, mx, al, <<q>>)

\* The caller's block and process objects, laid out in a heap: the blocks,
\* memoryBlocks, the processes, processes.  The form numbers both from 1.
Objects(sizes) == [k \in 1..Len(sizes) |-> [id |-> k, size |-> sizes[k]]]

InitFitWith(c, blockSizes, processSizes) ==
  LET b == Len(blockSizes)
      n == Len(processSizes)
  IN  /\ call = c
      /\ heap = Objects(blockSizes) \o <<[k \in 1..b |-> k]>>
                  \o Objects(processSizes) \o <<[k \in 1..n |-> b + 1 + k]>>
      /\ data = [memoryBlocks |-> b + 1, processes |-> b + n + 2]
      /\ pc = "start"
      /\ iss = NoFrame
      /\ rr = NoFrame
      /\ run = NoFrame
      /\ fit = NoFrame
      /\ ret = [fn |-> "none"]
      /\ form = NoFrame

Strategies == {"First Fit", "Next Fit", "Best Fit", "Worst Fit"}

Sizes(n) == UNION {[1..k -> 0..MaxSize] : k \in 1..n}

InitFit ==
  \E c \in Strategies, blockSizes \in Sizes(MaxBlocks), processSizes \in Sizes(MaxFitProcs) :
    InitFitWith(c, blockSizes, processSizes)

InitFitScenario ==
  \E c \in Strategies :
    \/ InitFitWith(c, <<100, 50, 200>>, <<90, 50>>)
    \/ InitFitWith(c, <<100, 50, 200>>, <<60>>)

Init ==
  \/ InitScenario
  \/ InitSafety
  \/ InitRequest
  \/ InitRun
  \/ InitOverAllocated
  \/ InitMalformed
  \/ InitFit
  \/ InitFitScenario

Next ==
  \/ CallIsSafeState
  \/ IssWhile
  \/ IssExamine
  \/ IssPassEnd
  \/ CallResourceRequest
  \/ RrClaimCheck
  \/ RrAvailCheck
  \/ RrAllocate
  \/ RrDecide
  \/ CallRunBankersAlgorithm
  \/ RunAfterInitial
  \/ RunRequest
  \/ RunPush
  \/ RunDone
  \/ CallFit
  \/ FitPlace
  \/ FitFinish

Spec == Init /\ [][Next]_vars

\* ----------------------------------------------------------- BankersInput
\* The form keeps its fields as the texts of its inputs; React renders it
\* again after each event, so a handler sees the state its predecessor
\* left.  The cells a handler writes in place belong to rows that no other
\* live array shares, so the arrays are kept by value.  form.submitted is
\* what the last event handed to onSubmit (at most one object),
\* form.alerted whether it raised the alert.
EngineVars == <<heap, data, call, pc, iss, rr, run, fit, ret>>

\* parseInt(text) on the texts of a number input: the number, or NaN.
ParsedNumbers == -1..(MaxFormProcs + MaxFormRes + MaxFormVal)

ParseInt(text) ==
  IF \E n \in ParsedNumbers : ToString(n) = text
    THEN [nan |-> FALSE, value |-> CHOOSE n \in ParsedNumbers : ToString(n) = text]
    ELSE [nan |-> TRUE, value |-> 0]

\* x || 0: 0 for NaN and for 0.
OrZero(x) == IF x.nan \/ x.value = 0 THEN 0 ELSE x.value

\* Array(n).fill('')
Blank(n) == [k \in 1..n |-> ""]

\* Lines 450-455: the initial state, three processes and three resources.
FormInitial ==
  [numProcesses |-> 3,
   numResources |-> 3,
   available |-> Blank(3),
   max |-> [i \in 1..3 |-> Blank(3)],
   allocation |-> [i \in 1..3 |-> Blank(3)],
   requests |-> <<[processId |-> 0, request |-> Blank(3)]>>,
   submitted |-> <<>>,
   alerted |-> FALSE]

\* The texts an event can carry: of a count field, of a cell.
CountTexts(hi) == {""} \cup {ToString(n) : n \in -1..hi}

CellTexts == {""} \cup {ToString(n) : n \in 1..MaxFormVal}

\* The number of cells of the form that hold a text.
FilledIn(row) == Cardinality({k \in 1..Len(row) : row[k] # ""})

Filled(f) ==
  FilledIn(f.available)
    + SumSizes([i \in 1..Len(f.max) |-> FilledIn(f.max[i])])
    + SumSizes([i \in 1..Len(f.allocation) |-> FilledIn(f.allocation[i])])
    + SumSizes([k \in 1..Len(f.requests) |-> FilledIn(f.requests[k].request)])

\* An event leaves the form in state f, having handed nothing out.
FormBecomes(f) ==
  /\ Filled(f) <= MaxFilled
  /\ form' = [f EXCEPT !.submitted = <<>>, !.alerted = FALSE]
  /\ UNCHANGED EngineVars

\* Lines 485-491, 494-502, 516-522: a vector cut or padded to n entries.
Resized(row, n) ==
  IF n > Len(row) THEN row \o Blank(n - Len(row))
                  ELSE SubSeq(row, 1, n)

\* Line 475: requests.filter(req => req.processId < newNumProcesses)
KeptRequestsAll(requests, newNumProcesses) == requests

KeptRequests(requests, newNumProcesses) ==
  SelectSeq(requests, LAMBDA req : req.processId < newNumProcesses)

\* Lines 458-477.
handleNumProcessesChange ==
  \E value \in CountTexts(MaxFormProcs) :
    LET newNumProcesses == OrZero(ParseInt(value))
    IN  IF newNumProcesses < 1 THEN FormBecomes(form)
        ELSE IF newNumProcesses > Len(form.max)
          THEN FormBecomes(
                 [form EXCEPT
                    !.numProcesses = newNumProcesses,
                    !.max = @ \o [i \in 1..(newNumProcesses - Len(form.max)) |->
                                   Blank(form.numResources)],
                    !.allocation = @ \o [i \in 1..(newNumProcesses - Len(form.allocation)) |->
                                          Blank(form.numResources)]])
          ELSE FormBecomes(
                 [form EXCEPT
                    !.numProcesses = newNumProcesses,
                    !.max = SubSeq(@, 1, newNumProcesses),
                    !.allocation = SubSeq(@, 1, newNumProcesses),
                    !.requests = KeptRequests(@, newNumProcesses)])

\* Lines 480-524.
handleNumResourcesChange ==
  \E value \in CountTexts(MaxFormRes) :
    LET newNumResources == OrZero(ParseInt(value))
    IN  IF newNumResources < 1 THEN FormBecomes(form)
        ELSE FormBecomes(
               [form EXCEPT
                  !.numResources = newNumResources,
                  !.available = Resized(@, newNumResources),
                  !.max = [i \in 1..Len(@) |-> Resized(@[i], newNumResources)],
                  !.allocation = [i \in 1..Len(@) |-> Resized(@[i], newNumResources)],
                  !.requests = [k \in 1..Len(@) |->
                                  [@[k] EXCEPT !.request = Resized(@, newNumResources)]]])

\* Lines 527-531; the index is that of a rendered cell.
handleAvailableChange ==
  \E index \in 0..(Len(form.available) - 1), value \in CellTexts :
    FormBecomes([form EXCEPT !.available[index + 1] = value])

\* Lines 534-538.
handleMaxChange ==
  \E processIndex \in 0..(Len(form.max) - 1), value \in CellTexts :
    \E resourceIndex \in 0..(Len(At(form.max, processIndex)) - 1) :
      FormBecomes([form EXCEPT !.max[processIndex + 1][resourceIndex + 1] = value])

\* Lines 541-545.
handleAllocationChange ==
  \E processIndex \in 0..(Len(form.allocation) - 1), value \in CellTexts :
    \E resourceIndex \in 0..(Len(At(form.allocation, processIndex)) - 1) :
      FormBecomes([form EXCEPT !.allocation[processIndex + 1][resourceIndex + 1] = value])

\* Lines 548-550.
addRequest ==
  /\ Len(form.requests) < MaxFormReqs
  /\ FormBecomes([form EXCEPT
                     !.requests = Append(@, [processId |-> 0,
                                             request |-> Blank(form.numResources)])])

\* Lines 553-559; splice(index, 1).
removeRequest ==
  \E index \in 0..(Len(form.requests) - 1) :
    IF Len(form.requests) > 1
      THEN FormBecomes([form EXCEPT
                          !.requests = SubSeq(@, 1, index) \o SubSeq(@, index + 2, Len(@))])
      ELSE FormBecomes(form)

\* Lines 562-569.
handleRequestProcessIdChange ==
  \E index \in 0..(Len(form.requests) - 1), value \in CountTexts(MaxFormProcs) :
    LET processId == OrZero(ParseInt(value))
    IN  IF processId < 0 \/ processId >= form.numProcesses
          THEN FormBecomes(form)
          ELSE FormBecomes([form EXCEPT !.requests[index + 1].processId = processId])

\* Lines 572-576.
handleRequestResourceChange ==
  \E requestIndex \in 0..(Len(form.requests) - 1), value \in CellTexts :
    \E resourceIndex \in 0..(Len(At(form.requests, requestIndex).request) - 1) :
      FormBecomes([form EXCEPT
                     !.requests[requestIndex + 1].request[resourceIndex + 1] = value])

\* Lines 581-594: val => parseInt(val) || 0 over every field.
Numbers(row) == [k \in 1..Len(row) |-> OrZero(ParseInt(row[k]))]

\* Lines 579-617.
handleSubmit ==
  LET validAvailable == Numbers(form.available)
      validMax == [i \in 1..Len(form.max) |-> Numbers(form.max[i])]
      validAllocation == [i \in 1..Len(form.allocation) |-> Numbers(form.allocation[i])]
      validRequests == [k \in 1..Len(form.requests) |->
                          [processId |-> form.requests[k].processId,
                           request |-> Numbers(form.requests[k].request)]]
      validationError ==
        \E i \in 0..(form.numProcesses - 1), j \in 0..(form.numResources - 1) :
          At(At(validAllocation, i), j) > At(At(validMax, i), j)
  IN  /\ form' = [form EXCEPT
                     !.alerted = validationError,
                     !.submitted = IF validationError THEN <<>>
                                   ELSE <<[available |-> validAvailable,
                                           max |-> validMax,
                                           allocation |-> validAllocation,
                                           requests |-> validRequests]>>]
      /\ UNCHANGED EngineVars

\* The form as it is first rendered; the engine is not running.
FormInit ==
  /\ form = FormInitial
  /\ call = "BankersInput"
  /\ pc = "form"
  /\ heap = <<>>
  /\ data = NoFrame
  /\ iss = NoFrame
  /\ rr = NoFrame
  /\ run = NoFrame
  /\ fit = NoFrame
  /\ ret = [fn |-> "none"]

FormNext ==
  \/ handleNumProcessesChange
  \/ handleNumResourcesChange
  \/ handleAvailableChange
  \/ handleMaxChange
  \/ handleAllocationChange
  \/ addRequest
  \/ removeRequest
  \/ handleRequestProcessIdChange
  \/ handleRequestResourceChange
  \/ handleSubmit

FormSpec == FormInit /\ [][FormNext]_vars

\* ------------------------------------------------- reference definitions
\* What the claims speak of, stated over the values of a call's arguments
\* (ret.in) and its result (ret.out), without the code's loops.
Procs(in) == 0..(Len(in.max) - 1)

Res(in) == 0..(Len(in.available) - 1)

Need(in, p, j) == in.max[p + 1][j + 1] - in.allocation[p + 1][j + 1]

Fits(in, p, work) == \A j \in Res(in) : Need(in, p, j) <= work[j + 1]

Plus(v, w) == [j \in 1..Len(v) |-> v[j] + w[j]]

Minus(v, w) == [j \in 1..Len(v) |-> v[j] - w[j]]

Ascending(seq) == \A k \in 1..(Len(seq) - 1) : seq[k] < seq[k + 1]

AscendingSeq(in, S) == SelectSeq([k \in 1..Len(in.max) |-> k - 1], LAMBDA p : p \in S)

Least(S) == CHOOSE j \in S : \A k \in S : j <= k

\* Some order of the processes of S in which each one's need is covered by
\* work plus the allocations of those placed before it.
RECURSIVE CanFinishAll(_, _, _)
CanFinishAll(in, S, work) ==
  \/ S = {}
  \/ \E p \in S : /\ Fits(in, p, work)
                  /\ CanFinishAll(in, S \ {p}, Plus(work, in.allocation[p + 1]))

SafeOrderExists(in) == CanFinishAll(in, Procs(in), in.available)

\* available plus the allocation rows of seq[1..k].
RECURSIVE Freed(_, _, _)
Freed(in, seq, k) ==
  IF k = 0 THEN in.available
           ELSE Plus(Freed(in, seq, k - 1), in.allocation[seq[k] + 1])

\* available plus the allocation rows of the processes of F.
RECURSIVE FreedBy(_, _)
FreedBy(in, F) ==
  IF F = {} THEN in.available
            ELSE LET p == CHOOSE q \in F : TRUE
                 IN  Plus(FreedBy(in, F \ {p}), in.allocation[p + 1])

\* The processes that can ever finish: the least set F that holds every
\* process whose need fits what F frees.
RECURSIVE CanFinish(_, _)
CanFinish(in, F) ==
  LET G == F \cup {p \in Procs(in) : Fits(in, p, FreedBy(in, F))}
  IN  IF G = F THEN F ELSE CanFinish(in, G)

\* Repeated ascending-id passes; a process that fits is finished at once.
RECURSIVE GreedyPass(_, _, _)
GreedyPass(in, i, st) ==
  IF i >= Len(in.max) THEN st
  ELSE IF i \notin st.done /\ Fits(in, i, st.work)
    THEN GreedyPass(in, i + 1, [work |-> Plus(st.work, in.allocation[i + 1]),
                                done |-> st.done \cup {i},
                                seq |-> Append(st.seq, i)])
    ELSE GreedyPass(in, i + 1, st)

RECURSIVE GreedyPasses(_, _)
GreedyPasses(in, st) ==
  IF st.done = Procs(in) THEN st
  ELSE LET t == GreedyPass(in, 0, st)
       IN  IF t.done = st.done THEN t ELSE GreedyPasses(in, t)

GreedyOrder(in) ==
  GreedyPasses(in, [work |-> in.available, done |-> {}, seq |-> <<>>]).seq

SafetyOf(in) ==
  IF SafeOrderExists(in)
    THEN [safe |-> TRUE, safeSequence |-> GreedyOrder(in), unfinishedProcesses |-> <<>>]
    ELSE [safe |-> FALSE, safeSequence |-> <<>>,
          unfinishedProcesses |-> AscendingSeq(in, Procs(in) \ CanFinish(in, {}))]

ClaimOffenders(in) ==
  {j \in Res(in) : in.request[j + 1] > Need(in, in.processId, j)}

AvailOffenders(in) == {j \in Res(in) : in.request[j + 1] > in.available[j + 1]}

TentativeState(in) ==
  [available |-> Minus(in.available, in.request),
   max |-> in.max,
   allocation |-> [in.allocation EXCEPT ![in.processId + 1] = Plus(@, in.request)]]

GrantOf(in) ==
  LET s == SafetyOf(TentativeState(in))
  IN  IF s.safe
        THEN [granted |-> TRUE, safeSequence |-> s.safeSequence]
        ELSE [granted |-> FALSE, reason |-> "Resulting state would be unsafe",
              unsafeProcesses |-> s.unfinishedProcesses]

OutcomeOf(in) ==
  IF ClaimOffenders(in) # {}
    THEN [granted |-> FALSE, reason |-> "Request exceeds maximum claim",
          resourceIndex |-> Least(ClaimOffenders(in))]
  ELSE IF AvailOffenders(in) # {}
    THEN [granted |-> FALSE, reason |-> "Resources not available",
          resourceIndex |-> Least(AvailOffenders(in))]
  ELSE GrantOf(in)

RequestIn(st, mx, req) ==
  [available |-> st.available, max |-> mx, allocation |-> st.allocation,
   processId |-> req.processId, request |-> req.request]

\* The running state after the first k requests: a granted request is
\* committed, a denied one leaves the state as it was.
RECURSIVE StateAfter(_, _)
StateAfter(in, k) ==
  IF k = 0 THEN [available |-> in.available, allocation |-> in.allocation]
  ELSE LET st == StateAfter(in, k - 1)
           q == RequestIn(st, in.max, in.requests[k])
       IN  IF OutcomeOf(q).granted
             THEN [available |-> TentativeState(q).available,
                   allocation |-> TentativeState(q).allocation]
             ELSE st

ReplayOf(in) ==
  [k \in 1..Len(in.requests) |->
     OutcomeOf(RequestIn(StateAfter(in, k - 1), in.max, in.requests[k]))
       @@ [processId |-> in.requests[k].processId, request |-> in.requests[k].request]]

ScenarioIn ==
  [available |-> <<3, 3, 2>>, max |-> ScenarioMax, allocation |-> ScenarioAllocation]

UnsafeScenarioIn ==
  [available |-> <<0, 0, 0>>, max |-> <<<<1, 1, 1>>>>, allocation |-> <<<<0, 0, 0>>>>]

IssReturned == ret.fn = "isSafeState"

RrReturned == ret.fn = "resourceRequest"

RunReturned == ret.fn = "runBankersAlgorithm"

\* ------------------------------------------------------------------ claims
\* C1: for non-negative inputs with allocation <= max, isSafeState returns
\* safe = true if and only if some order of all processes exists in which
\* each process's need is covered by the initial available plus the
\* allocations of the processes placed before it.
C1_SafeIffOrderExists ==
  IssReturned => (ret.out.safe <=> SafeOrderExists(ret.in))

\* C1 witness: a safe verdict for three processes that the scan could not
\* finish in id order (process 0 had to wait for a later one).
C1_Witness ==
  /\ IssReturned
  /\ ret.out.safe
  /\ Len(ret.out.safeSequence) = 3
  /\ ret.out.safeSequence[3] = 0
  /\ ~Fits(ret.in, 0, ret.in.available)

\* C2: whenever isSafeState returns safe = true, safeSequence holds every
\* process id exactly once, unfinishedProcesses is empty, and the need of
\* safeSequence[k] is at most the initial available plus the allocation rows
\* of the processes before it in the sequence.
C2_SafeSequenceValid ==
  (IssReturned /\ ret.out.safe) =>
    LET seq == ret.out.safeSequence
    IN  /\ Len(seq) = Len(ret.in.max)
        /\ {seq[k] : k \in 1..Len(seq)} = Procs(ret.in)
        /\ ret.out.unfinishedProcesses = <<>>
        /\ \A k \in 1..Len(seq) : Fits(ret.in, seq[k], Freed(ret.in, seq, k - 1))

\* C2 witness: a safe sequence whose last process needs more than the
\* initial available, so that it rests on what its predecessors freed.
C2_Witness ==
  /\ IssReturned
  /\ ret.out.safe
  /\ Len(ret.out.safeSequence) >= 2
  /\ ~Fits(ret.in, ret.out.safeSequence[Len(ret.out.safeSequence)], ret.in.available)

\* C3: whenever isSafeState returns safe = false, safeSequence is empty and
\* unfinishedProcesses lists in ascending id order exactly the processes
\* that can never finish; for available = [0,0,0], max = [[1,1,1]],
\* allocation = [[0,0,0]] the result is unsafe with unfinishedProcesses [0].
C3_UnsafeResult ==
  /\ (IssReturned /\ ~ret.out.safe) =>
        /\ ret.out.safeSequence = <<>>
        /\ Ascending(ret.out.unfinishedProcesses)
        /\ {ret.out.unfinishedProcesses[k] : k \in 1..Len(ret.out.unfinishedProcesses)}
             = Procs(ret.in) \ CanFinish(ret.in, {})
  /\ (IssReturned /\ ret.in = UnsafeScenarioIn) =>
        ret.out = [safe |-> FALSE, safeSequence |-> <<>>, unfinishedProcesses |-> <<0>>]

\* C3 witness: an unsafe verdict after a process did finish; the finished
\* process is in neither list.
C3_Witness ==
  /\ IssReturned
  /\ ~ret.out.safe
  /\ ret.out.safeSequence = <<>>
  /\ Len(ret.out.unfinishedProcesses) = 2
  /\ Len(ret.in.max) = 3

\* C4: the safe sequence is the order of repeated ascending-id passes in
\* which every unfinished process whose need fits is finished at once, its
\* allocation returned before the next process of the same pass is looked
\* at; on the five-process scenario the result is safe and starts with 1.
C4_GreedyOrder ==
  /\ (IssReturned /\ ret.out.safe) => ret.out.safeSequence = GreedyOrder(ret.in)
  /\ (IssReturned /\ ret.in = ScenarioIn) =>
        /\ ret.out.safe
        /\ ret.out.safeSequence[1] = 1

\* C4 witness: one pass finished processes 1 and 2 before process 0, which
\* fitted as soon as process 1 had finished.
C4_Witness ==
  /\ IssReturned
  /\ ret.out.safe
  /\ ret.out.safeSequence = <<1, 2, 0>>
  /\ Fits(ret.in, 0, Plus(ret.in.available, ret.in.allocation[2]))

\* C5: if request[j] > need[processId][j] for some j, resourceRequest denies
\* with the reason "exceeds maximum claim" and the smallest such j, whatever
\* the available vector and whatever the safety of the tentative state.
C5_ClaimDenial ==
  (RrReturned /\ ClaimOffenders(ret.in) # {}) =>
     ret.out = [granted |-> FALSE, reason |-> "Request exceeds maximum claim",
                resourceIndex |-> Least(ClaimOffenders(ret.in))]

\* C5 witness: a request that exceeds the available of resource 0 and the
\* claim of resources 0 and 1: it is denied for the claim, at index 0.
C5_Witness ==
  /\ RrReturned
  /\ ClaimOffenders(ret.in) = {0, 1}
  /\ 0 \in AvailOffenders(ret.in)
  /\ ret.out.reason = "Request exceeds maximum claim"

\* C6: if the request is within the need for every j and request[j] >
\* available[j] for some j, resourceRequest denies with the reason
\* "resources not available" and the smallest such j.
C6_AvailabilityDenial ==
  (RrReturned /\ ClaimOffenders(ret.in) = {} /\ AvailOffenders(ret.in) # {}) =>
     ret.out = [granted |-> FALSE, reason |-> "Resources not available",
                resourceIndex |-> Least(AvailOffenders(ret.in))]

\* C6 witness: a request within the claim that exceeds the available of
\* resource 1 only, while resource 0 is requested to the last unit.
C6_Witness ==
  /\ RrReturned
  /\ ClaimOffenders(ret.in) = {}
  /\ AvailOffenders(ret.in) = {1}
  /\ ret.in.request[1] = ret.in.available[1]
  /\ ret.out.reason = "Resources not available"

\* C7: when a request passes both static checks, isSafeState is applied to
\* the tentative state (available - request, allocation[processId] +
\* request, the same max) and resourceRequest returns granted with that
\* state's safe sequence if it is safe, else the denial "resulting state
\* would be unsafe" with that state's unfinished processes.
C7_SafetyDecides ==
  /\ (pc = "rr_decide") => (IssReturned /\ ret.in = TentativeState(rr.in))
  /\ (RrReturned /\ ClaimOffenders(ret.in) = {} /\ AvailOffenders(ret.in) = {}) =>
        ret.out = GrantOf(ret.in)

\* C7 witness: a request on a safe state, passing both static checks and
\* denied because the tentative state is unsafe.
C7_Witness ==
  /\ RrReturned
  /\ SafeOrderExists(ret.in)
  /\ ClaimOffenders(ret.in) = {}
  /\ AvailOffenders(ret.in) = {}
  /\ ~ret.out.granted
  /\ ret.out.unsafeProcesses # <<>>

\* C8: when the initial state is safe, requestResults has one entry per
\* request, in input order, and entry k is resourceRequest's outcome on the
\* running state folded over requests 0..k-1: a granted request is
\* committed, a denied one leaves the running state as it was.
C8_ReplayIsFold ==
  /\ (pc = "run_loop") =>
        /\ Vec(heap, run.currentAvailable) = StateAfter(run.in, run.k).available
        /\ Mat(heap, run.currentAllocation) = StateAfter(run.in, run.k).allocation
  /\ (RunReturned /\ ret.out.initialState.safe) =>
        ret.out.requestResults = ReplayOf(ret.in)

\* C8 witness: two requests, the first granted, the second denied for
\* resources that were available before the first was committed.
C8_Witness ==
  /\ RunReturned
  /\ Len(ret.out.requestResults) = 2
  /\ ret.out.requestResults[1].granted
  /\ ~ret.out.requestResults[2].granted
  /\ ret.out.requestResults[2].reason = "Resources not available"
  /\ AvailOffenders(RequestIn(ret.in, ret.in.max, ret.in.requests[2])) = {}

\* C9: if the initial state is unsafe, runBankersAlgorithm evaluates no
\* request: requestResults is empty whatever the requests are, and
\* initialState carries the unsafe verdict with its unfinished processes.
C9_UnsafeInitialNoReplay ==
  (RunReturned /\ ~SafeOrderExists(ret.in)) =>
     /\ ret.out.requestResults = <<>>
     /\ ret.out.initialState = SafetyOf(ret.in)
     /\ ~ret.out.initialState.safe

\* C9 witness: an unsafe initial state with two requests, none evaluated.
C9_Witness ==
  /\ RunReturned
  /\ ~ret.out.initialState.safe
  /\ Len(ret.in.requests) = 2
  /\ ret.out.requestResults = <<>>

\* The values of the arrays the caller handed to a Banker's function.
CallerState ==
  [available |-> Vec(heap, data.available),
   max |-> Mat(heap, data.max),
   allocation |-> Mat(heap, data.allocation)]

\* C10: no engine function changes its arguments: when isSafeState,
\* resourceRequest, runBankersAlgorithm, firstFit, nextFit, bestFit or
\* worstFit has returned, whatever the outcome, the arrays it was handed
\* (the caller's, or the calling engine function's own working arrays) hold
\* the values they held when it was called.
C10_ArgumentsKept ==
  /\ (pc = "done" /\ call = "isSafeState") => ret.in = CallerState
  /\ (pc = "done" /\ call = "resourceRequest") =>
        ret.in = CallerState @@ [processId |-> data.requests[1].processId,
                                 request |-> data.requests[1].request]
  /\ (pc = "done" /\ call = "runBankersAlgorithm") =>
        ret.in = CallerState @@ [requests |-> data.requests]
  /\ (pc = "done" /\ call \in Strategies) =>
        ret.in = [memoryBlocks |-> Mat(heap, data.memoryBlocks),
                  processes |-> Mat(heap, data.processes)]
  /\ (pc = "run_init") => ret.in = CallerState
  /\ (pc = "rr_decide") =>
        ret.in = [available |-> Vec(heap, rr.availableResources),
                  max |-> Mat(heap, rr.maxDemand),
                  allocation |-> Mat(heap, rr.currentAllocation)]
  /\ (pc = "run_push") =>
        /\ ret.in.available = Vec(heap, run.currentAvailable)
        /\ ret.in.max = Mat(heap, data.max)
        /\ ret.in.allocation = Mat(heap, run.currentAllocation)
        /\ ret.in.request = At(data.requests, run.k).request

\* C10 witness: inside a replay, a request for at least one unit has come
\* back denied as unsafe, after the tentative allocation was applied.
C10_Witness ==
  /\ pc = "run_push"
  /\ RrReturned
  /\ ~ret.out.granted
  /\ ret.out.reason = "Resulting state would be unsafe"
  /\ \E j \in 1..Len(ret.in.request) : ret.in.request[j] > 0

\* The arguments fit each other: max and allocation have the same rows, of
\* the length of available, and a processId is one of their row indices.
Shaped(in) ==
  /\ Len(in.allocation) = Len(in.max)
  /\ \A i \in 1..Len(in.max) : /\ Len(in.max[i]) = Len(in.available)
                                /\ Len(in.allocation[i]) = Len(in.available)
  /\ ("processId" \in DOMAIN in) => in.processId \in Procs(in)

OverAllocated(in) ==
  /\ Shaped(in)
  /\ \E p \in Procs(in), j \in Res(in) : Need(in, p, j) < 0

\* C11: when some allocation[i][j] exceeds max[i][j], isSafeState and
\* resourceRequest raise no error: no call with such arguments ends in an
\* exception, and a call that has returned has returned the result that the
\* safety and request rules give for a need that is negative in that entry.
C11_NegativeNeedNoError ==
  /\ (ret.fn = "TypeError") => ~OverAllocated(ret.in)
  /\ (IssReturned /\ OverAllocated(ret.in)) => ret.out = SafetyOf(ret.in)
  /\ (RrReturned /\ OverAllocated(ret.in)) => ret.out = OutcomeOf(ret.in)

\* C11 witness: a process that holds more than its maximum of resource j
\* asks for none of it and is denied for its claim at j: 0 > need < 0.
C11_Witness ==
  /\ RrReturned
  /\ OverAllocated(ret.in)
  /\ \E j \in Res(ret.in) :
        /\ Need(ret.in, ret.in.processId, j) < 0
        /\ ret.in.request[j + 1] = 0
        /\ ret.out = [granted |-> FALSE, reason |-> "Request exceeds maximum claim",
                      resourceIndex |-> j]

\* C12: every call of isSafeState, resourceRequest and runBankersAlgorithm
\* ends by returning a result object, never by throwing, whatever the
\* caller passes: mismatched dimensions and a processId that is no row
\* index included.
C12_NeverThrows == pc # "threw"

\* ---------------------------------------- reference definitions, memory
\* A strategy's arguments (ret.in) and result (ret.out); blocks and
\* processes are numbered from 0, as in the result's allocation.
FitReturned == ret.fn \in Strategies

Blocks(in) == 0..(Len(in.memoryBlocks) - 1)

FitProcs(in) == 0..(Len(in.processes) - 1)

BlockSize(in, b) == in.memoryBlocks[b + 1].size

ProcSize(in, i) == in.processes[i + 1].size

Placed(out, i) == out.allocation[i + 1]

\* The remaining size of block b at the turn of process i: 0 once an earlier
\* process of the run was given b.
Remaining(in, out, i, b) ==
  IF \E k \in 0..(i - 1) : Placed(out, k) = b THEN 0 ELSE BlockSize(in, b)

Eligible(in, out, i) ==
  {b \in Blocks(in) : Remaining(in, out, i, b) >= ProcSize(in, i)}

FitIn(blockSizes, processSizes) ==
  [memoryBlocks |-> [k \in 1..Len(blockSizes) |-> [id |-> k, size |-> blockSizes[k]]],
   processes |-> [k \in 1..Len(processSizes) |-> [id |-> k, size |-> processSizes[k]]]]

\* C13: firstFit handles the processes in input order and gives each the
\* lowest-index block whose remaining size is >= the process size, a block
\* given away earlier counting as size 0; for blocks 100, 50, 200 and
\* processes 90, 50 process 0 gets block 0 with internal fragmentation 10
\* and process 1 gets block 1 with internal fragmentation 0.
C13_FirstFitLowestIndex ==
  /\ (ret.fn = "First Fit") =>
        \A i \in FitProcs(ret.in) :
           Placed(ret.out, i) = IF Eligible(ret.in, ret.out, i) = {}
                                  THEN NoBlock
                                  ELSE Least(Eligible(ret.in, ret.out, i))
  /\ (ret.fn = "First Fit" /\ ret.in = FitIn(<<100, 50, 200>>, <<90, 50>>)) =>
        /\ ret.out.allocation = <<0, 1>>
        /\ ret.out.internalFragmentation = <<10, 0, 0>>

\* C13 witness: the second process fits the original block 0, which the
\* first process has consumed, and gets block 1.
C13_Witness ==
  /\ ret.fn = "First Fit"
  /\ Len(ret.in.processes) >= 2
  /\ Placed(ret.out, 0) = 0
  /\ Placed(ret.out, 1) = 1
  /\ ProcSize(ret.in, 1) > 0
  /\ BlockSize(ret.in, 0) >= ProcSize(ret.in, 1)

\* The index nextFit starts the scan for process i at: one past the block of
\* the latest earlier process that was given a block, or 0 if there is none.
ScanStart(in, out, i) ==
  LET given == {k \in 0..(i - 1) : Placed(out, k) # NoBlock}
  IN  IF given = {} THEN 0
      ELSE (Placed(out, CHOOSE k \in given : \A m \in given : m <= k) + 1)
             % Len(in.memoryBlocks)

\* The block met at step d of the circular scan for process i.
ScanBlock(in, out, i, d) == (ScanStart(in, out, i) + d) % Len(in.memoryBlocks)

\* C14: nextFit gives each process the first block with remaining size >=
\* the process size met in a circular scan of at most numBlocks blocks; the
\* scan starts at index 0 for the first process and otherwise one past
\* (mod numBlocks) the block of the latest process that was given one, so a
\* process that finds no block leaves the start where it was.
C14_NextFitCircular ==
  (ret.fn = "Next Fit") =>
     \A i \in FitProcs(ret.in) :
        LET steps == {d \in Blocks(ret.in) :
                        ScanBlock(ret.in, ret.out, i, d) \in Eligible(ret.in, ret.out, i)}
        IN  Placed(ret.out, i) = IF steps = {} THEN NoBlock
                                 ELSE ScanBlock(ret.in, ret.out, i, Least(steps))

\* C14 witness: process 0 gets block 1, process 1 finds no block, and
\* process 2, scanning from block 2 on, wraps around to block 0.
C14_Witness ==
  /\ ret.fn = "Next Fit"
  /\ ret.out.allocation = <<1, NoBlock, 0>>
  /\ Len(ret.in.memoryBlocks) = 3
  /\ ProcSize(ret.in, 2) > 0

\* The eligible blocks of the smallest, and of the largest, remaining size.
Tightest(in, out, i) ==
  {b \in Eligible(in, out, i) :
     \A c \in Eligible(in, out, i) : Remaining(in, out, i, b) <= Remaining(in, out, i, c)}

Roomiest(in, out, i) ==
  {b \in Eligible(in, out, i) :
     \A c \in Eligible(in, out, i) : Remaining(in, out, i, b) >= Remaining(in, out, i, c)}

\* C15: bestFit gives each process, among the blocks whose remaining size
\* is >= the process size, the block of the smallest remaining size, and
\* among several of that size the one with the lowest index.
C15_BestFitSmallest ==
  (ret.fn = "Best Fit") =>
     \A i \in FitProcs(ret.in) :
        Placed(ret.out, i) = IF Eligible(ret.in, ret.out, i) = {}
                               THEN NoBlock
                               ELSE Least(Tightest(ret.in, ret.out, i))

\* C15 witness: blocks of sizes 2, 1, 1 and a first process of size 1: it
\* gets block 1, the first of the two smallest, not block 0.
C15_Witness ==
  /\ ret.fn = "Best Fit"
  /\ [b \in 1..Len(ret.in.memoryBlocks) |-> ret.in.memoryBlocks[b].size] = <<2, 1, 1>>
  /\ ProcSize(ret.in, 0) = 1
  /\ Placed(ret.out, 0) = 1

\* C16: worstFit gives each process, among the blocks whose remaining size
\* is >= the process size, the block of the largest remaining size, and
\* among several of that size the one with the lowest index; on blocks 100,
\* 50, 200 and one process of size 60 worstFit chooses the block of size
\* 200 and bestFit the block of size 100.
C16_WorstFitLargest ==
  /\ (ret.fn = "Worst Fit") =>
        \A i \in FitProcs(ret.in) :
           Placed(ret.out, i) = IF Eligible(ret.in, ret.out, i) = {}
                                  THEN NoBlock
                                  ELSE Least(Roomiest(ret.in, ret.out, i))
  /\ (ret.fn = "Worst Fit" /\ ret.in = FitIn(<<100, 50, 200>>, <<60>>)) =>
        ret.out.allocation = <<2>>
  /\ (ret.fn = "Best Fit" /\ ret.in = FitIn(<<100, 50, 200>>, <<60>>)) =>
        ret.out.allocation = <<0>>

\* C16 witness: blocks of sizes 1, 2, 2 and a first process of size 1: it
\* gets block 1, the first of the two largest.
C16_Witness ==
  /\ ret.fn = "Worst Fit"
  /\ [b \in 1..Len(ret.in.memoryBlocks) |-> ret.in.memoryBlocks[b].size] = <<1, 2, 2>>
  /\ ProcSize(ret.in, 0) = 1
  /\ Placed(ret.out, 0) = 1

\* C17: in every run of firstFit, nextFit, bestFit and worstFit, sizes of 0
\* included, no block index appears more than once in the returned
\* allocation.
C17_NoBlockTwice ==
  FitReturned =>
     \A i \in FitProcs(ret.in), k \in FitProcs(ret.in) :
        (i < k /\ Placed(ret.out, i) # NoBlock) => Placed(ret.out, i) # Placed(ret.out, k)

\* C18: for all four strategies, a process placed in block b is no larger
\* than the original size of b, internalFragmentation[b] is the original
\* size of b minus the size of the process placed in b and is >= 0, and
\* internalFragmentation[b] is 0 for every block that received no process.
C18_InternalFragmentation ==
  FitReturned =>
     /\ \A i \in FitProcs(ret.in) :
           LET b == Placed(ret.out, i)
           IN  (b # NoBlock) =>
                  /\ ProcSize(ret.in, i) <= BlockSize(ret.in, b)
                  /\ ret.out.internalFragmentation[b + 1]
                       = BlockSize(ret.in, b) - ProcSize(ret.in, i)
                  /\ ret.out.internalFragmentation[b + 1] >= 0
     /\ \A b \in Blocks(ret.in) :
           (\A i \in FitProcs(ret.in) : Placed(ret.out, i) # b) =>
              ret.out.internalFragmentation[b + 1] = 0

\* The processes that were given no block, and the sum of the remaining
\* sizes of the blocks of S at the end of the run.
Unplaced(in, out) == {i \in FitProcs(in) : Placed(out, i) = NoBlock}

RECURSIVE FreeSum(_, _, _)
FreeSum(in, out, S) ==
  IF S = {} THEN 0
  ELSE LET b == CHOOSE c \in S : TRUE
       IN  Remaining(in, out, Len(in.processes), b) + FreeSum(in, out, S \ {b})

\* C19: for all four strategies, externalFragmentation is the sum of the
\* sizes of the blocks that are still free at the end of the run (remaining
\* size > 0) and strictly smaller than the largest process that was given
\* no block; it is 0 when every process was given a block.
C19_ExternalFragmentation ==
  FitReturned =>
     LET n == Len(ret.in.processes)
         unplaced == Unplaced(ret.in, ret.out)
     IN  IF unplaced = {}
           THEN ret.out.externalFragmentation = 0
           ELSE \E largest \in unplaced :
                  /\ \A i \in unplaced : ProcSize(ret.in, i) <= ProcSize(ret.in, largest)
                  /\ ret.out.externalFragmentation =
                       FreeSum(ret.in, ret.out,
                               {b \in Blocks(ret.in) :
                                  /\ Remaining(ret.in, ret.out, n, b) > 0
                                  /\ Remaining(ret.in, ret.out, n, b)
                                        < ProcSize(ret.in, largest)})

\* C19 witness: one block was consumed, a process of size 2 was given no
\* block, and two free blocks of size 1 are counted.
C19_Witness ==
  /\ FitReturned
  /\ ret.out.externalFragmentation = 2
  /\ \E i \in FitProcs(ret.in) : Placed(ret.out, i) # NoBlock
  /\ \E i \in Unplaced(ret.in, ret.out) : ProcSize(ret.in, i) = 2

\* The ids of the processes of S, in input order.
RECURSIVE IdsOf(_, _, _)
IdsOf(in, S, i) ==
  IF i >= Len(in.processes) THEN <<>>
  ELSE (IF i \in S THEN <<in.processes[i + 1].id>> ELSE <<>>) \o IdsOf(in, S, i + 1)

\* A step of a strategy's loop that leaves the process at hand without a block.
LeavesUnplaced ==
  /\ pc = "fit_for"
  /\ pc' = "fit_for"
  /\ fit'.allocation[fit.i + 1] = NoBlock

\* C20: for all four strategies, a process is given no block (allocation
\* null) if and only if at its turn no block has remaining size >= its
\* size; the step that leaves a process without a block changes no block's
\* remaining size and no internalFragmentation entry; unallocatedProcesses
\* is the ids of the processes with allocation null, in input order, a
\* field of the returned result.
C20_Unallocated ==
  /\ [](FitReturned =>
          /\ \A i \in FitProcs(ret.in) :
                (Placed(ret.out, i) = NoBlock) <=> (Eligible(ret.in, ret.out, i) = {})
          /\ ret.out.unallocatedProcesses
               = IdsOf(ret.in, Unplaced(ret.in, ret.out), 0))
  /\ [][LeavesUnplaced =>
          /\ Mat(heap', fit'.blocks) = Mat(heap, fit.blocks)
          /\ fit'.internalFragmentation = fit.internalFragmentation]_vars

\* C20 witness: of three processes the second was given no block, after a
\* block was consumed and before another was given away; its id, 2, is
\* the one reported.
C20_Witness ==
  /\ FitReturned
  /\ Len(ret.in.processes) = 3
  /\ Placed(ret.out, 0) # NoBlock
  /\ Placed(ret.out, 1) = NoBlock
  /\ Placed(ret.out, 2) # NoBlock
  /\ ret.out.unallocatedProcesses = <<2>>

\* isSafeState is running: at the while test, or inside a pass.
IssRunning == pc \in {"iss_while", "iss_for"}

\* The pass of isSafeState has examined every process.
IssAtPassEnd == pc = "iss_for" /\ iss.i >= iss.numProcesses

\* C21: isSafeState terminates: a pass that is followed by another has
\* finished at least one process, strictly raising the finished count, a
\* pass that finished none is followed by the unsafe return at once, and
\* the outer loop never begins more than numProcesses passes; a pass is
\* numProcesses iterations of the inner loop.
C21_PassesBounded ==
  /\ [](IssRunning =>
          /\ iss.passes <= iss.numProcesses
          /\ iss.count <= iss.numProcesses
          /\ iss.i <= iss.numProcesses
          /\ (pc = "iss_while" /\ iss.passes > 0) => iss.count > iss.countBefore
          /\ iss.count >= iss.passes - 1)
  /\ [][(IssAtPassEnd /\ iss.count = iss.countBefore) =>
          (ret'.fn = "isSafeState" /\ ~ret'.out.safe)]_vars
  /\ [][(IssAtPassEnd /\ iss.count > iss.countBefore) =>
          (pc' = "iss_while" /\ UNCHANGED iss)]_vars
  /\ [][(pc = "iss_while" /\ iss.count >= iss.numProcesses) =>
          (ret'.fn = "isSafeState" /\ ret'.out.safe)]_vars

\* C21 witness: the third pass over three processes is under way: each of
\* the two passes before it finished exactly one process.
C21_Witness ==
  /\ pc = "iss_for"
  /\ iss.numProcesses = 3
  /\ iss.passes = 3
  /\ iss.countBefore = 2

\* Sum of f[x] over the finite set S.
RECURSIVE SumOver(_, _)
SumOver(f, S) ==
  IF S = {} THEN 0
  ELSE LET x == CHOOSE y \in S : TRUE IN f[x] + SumOver(f, S \ {x})

\* The amount of resource j held by the processes of P under the matrix al.
Held(al, P, j) == SumOver([i \in P |-> At(At(al, i), j)], P)

\* The ids isSafeState has not finished yet.
IssUnfinished == {i \in 0..(iss.numProcesses - 1) : ~At(iss.finished, i)}

\* C22: at every step of isSafeState and for every resource j, the working
\* available[j] plus the allocation[i][j] of the processes not yet finished
\* equals the initial available[j] plus the allocation[i][j] of all
\* processes: finishing a process adds its allocation exactly once.
C22_ResourcesConserved ==
  IssRunning =>
    \A j \in 0..(iss.numResources - 1) :
      At(Vec(heap, iss.availableResources), j)
          + Held(iss.in.allocation, IssUnfinished, j)
        = At(iss.in.available, j)
          + Held(iss.in.allocation, 0..(iss.numProcesses - 1), j)

\* C22 witness: inside a pass, one process that held something has
\* finished and another that holds something has not.
C22_Witness ==
  /\ pc = "iss_for"
  /\ \E i \in 0..(iss.numProcesses - 1) :
       /\ At(iss.finished, i)
       /\ \E j \in 0..(iss.numResources - 1) : At(At(iss.in.allocation, i), j) > 0
  /\ \E i \in IssUnfinished :
       \E j \in 0..(iss.numResources - 1) : At(At(iss.in.allocation, i), j) > 0

\* The order obtained by finishing, again and again, the lowest-id
\* unfinished process whose need fits, looking from process 0 each time.
RECURSIVE RestartOrderFrom(_, _, _)
RestartOrderFrom(in, done, seq) ==
  LET ready == {p \in Procs(in) \ done : Fits(in, p, FreedBy(in, done))}
  IN  IF ready = {} THEN seq
      ELSE RestartOrderFrom(in, done \cup {Least(ready)}, Append(seq, Least(ready)))

RestartOrder(in) == RestartOrderFrom(in, {}, <<>>)

\* The processes finished before the running pass began, and in it.
IssDoneBefore == {iss.safeSequence[k] : k \in 1..iss.countBefore}

IssDoneInPass ==
  [k \in 1..(iss.count - iss.countBefore) |-> iss.safeSequence[iss.countBefore + k]]

\* The unfinished processes whose need fitted when the running pass began.
IssReadyAtPassStart ==
  {p \in Procs(iss.in) \ IssDoneBefore : Fits(iss.in, p, FreedBy(iss.in, IssDoneBefore))}

\* C23 as stated: each pass finishes exactly one process, and the safe
\* sequence is the one obtained by restarting the scan from process 0 after
\* every finish.
C23_OneFinishPerPass ==
  /\ (IssAtPassEnd /\ iss.found) => iss.count = iss.countBefore + 1
  /\ (IssReturned /\ ret.out.safe) => ret.out.safeSequence = RestartOrder(ret.in)

\* C23, amended: the first process a pass finishes is the lowest-id
\* unfinished process whose need fits the working available, and after a
\* finish the same pass goes on with the next id, without restarting at
\* process 0: every unfinished process it examines whose need fits the
\* working available at that moment is finished too, so a pass finishes one
\* or more processes, in ascending id order.
C23_ScanContinues ==
  /\ [](pc = "iss_for" =>
          /\ Ascending(IssDoneInPass)
          /\ \A k \in 1..Len(IssDoneInPass) : IssDoneInPass[k] < iss.i
          /\ iss.found <=> iss.count > iss.countBefore
          /\ iss.count > iss.countBefore => IssDoneInPass[1] = Least(IssReadyAtPassStart)
          /\ (iss.count = iss.countBefore) =>
                \A p \in IssReadyAtPassStart : p >= iss.i)
  /\ [][(pc = "iss_for" /\ iss.i < iss.numProcesses) =>
          /\ pc' = "iss_for"
          /\ iss'.i = iss.i + 1
          /\ iss'.countBefore = iss.countBefore
          /\ IF /\ ~At(iss.finished, iss.i)
                /\ Fits(iss.in, iss.i, Vec(heap, iss.availableResources))
               THEN /\ iss'.safeSequence = Append(iss.safeSequence, iss.i)
                    /\ iss'.count = iss.count + 1
                    /\ At(iss'.finished, iss.i)
               ELSE /\ iss'.safeSequence = iss.safeSequence
                    /\ iss'.count = iss.count
                    /\ iss'.finished = iss.finished]_vars

\* C23 witness: a pass over three processes ends having finished two of
\* them, the second of which did not fit when the pass began.
C23_Witness ==
  /\ IssAtPassEnd
  /\ iss.numProcesses = 3
  /\ iss.count >= iss.countBefore + 2
  /\ IssDoneInPass[2] \notin IssReadyAtPassStart

\* runBankersAlgorithm is replaying the requests: its running arrays exist.
RunReplaying == pc # "threw" /\ "k" \in DOMAIN run

\* The running state of the replay.
RunState ==
  [available |-> Vec(heap, run.currentAvailable),
   max |-> run.in.max,
   allocation |-> Mat(heap, run.currentAllocation)]

\* C24: all along the replay of runBankersAlgorithm, so after every request,
\* granted or denied, and for every resource j, the running available[j]
\* plus the running allocation[i][j] of all processes equals the same sum
\* over the initial state.
C24_ReplayConserves ==
  RunReplaying =>
    \A j \in Res(run.in) :
      At(RunState.available, j) + Held(RunState.allocation, Procs(run.in), j)
        = At(run.in.available, j) + Held(run.in.allocation, Procs(run.in), j)

\* C24 witness: two requests have been replayed, the first was granted and
\* moved something from available to the allocation, the second was denied.
C24_Witness ==
  /\ pc = "run_loop"
  /\ run.k = 2
  /\ run.requestResults[1].granted
  /\ ~run.requestResults[2].granted
  /\ RunState.available # run.in.available
  /\ RunState.allocation # run.in.allocation

\* The index of the last granted request among the first k results, 0 if
\* none was granted.
RECURSIVE LastGranted(_, _)
LastGranted(results, k) ==
  IF k = 0 THEN 0
  ELSE IF results[k].granted THEN k
  ELSE LastGranted(results, k - 1)

\* The state resourceRequest built and had isSafeState check for request g
\* of the replay, the initial state for g = 0.
CheckedFor(in, g) ==
  IF g = 0 THEN [available |-> in.available, max |-> in.max, allocation |-> in.allocation]
  ELSE TentativeState(RequestIn(StateAfter(in, g - 1), in.max, in.requests[g]))

\* C25: in a replay (the initial state is safe, no request entry is
\* negative), after every prefix of the request list the running state is
\* safe, keeps allocation <= max and available >= 0, and is exactly the
\* tentative state that resourceRequest handed to isSafeState for the most
\* recent granted request (the initial state while none was granted): a
\* granted request commits the state that was checked, a denied one commits
\* nothing.
C25_ReplayStaysSafe ==
  /\ []((RunReplaying /\ pc = "run_loop") =>
          /\ SafeOrderExists(RunState)
          /\ Within(run.in.allocation, run.in.max) => Within(RunState.allocation, run.in.max)
          /\ \A j \in Res(run.in) : At(RunState.available, j) >= 0
          /\ RunState = CheckedFor(run.in, LastGranted(run.requestResults, run.k)))
  /\ []((RunReplaying /\ pc = "rr_decide") =>
          /\ ret.fn = "isSafeState"
          /\ ret.in = TentativeState(rr.in)
          /\ rr.in = RequestIn(RunState, run.in.max, At(run.in.requests, run.k)))
  /\ [][(RunReplaying /\ pc = "run_push") =>
          RunState' = IF ret.out.granted THEN TentativeState(ret.in) ELSE RunState]_vars

\* C25 witness: two requests have been replayed; the first was granted and
\* committed, the second was denied because its tentative state was unsafe,
\* and the running state is still the one checked for the first.
C25_Witness ==
  /\ pc = "run_loop"
  /\ run.k = 2
  /\ run.requestResults[1].granted
  /\ \E j \in Res(run.in) : At(run.in.requests, 0).request[j + 1] > 0
  /\ ~run.requestResults[2].granted
  /\ run.requestResults[2].reason = "Resulting state would be unsafe"
  /\ RunState = CheckedFor(run.in, 1)

\* The blocks that were given no process.
NeverGiven(in, out) == {b \in Blocks(in) : \A i \in FitProcs(in) : Placed(out, i) # b}

\* Every block and every process has a positive size.
PositiveSizes(in) ==
  /\ \A b \in Blocks(in) : BlockSize(in, b) > 0
  /\ \A i \in FitProcs(in) : ProcSize(in, i) > 0

\* C26: for all four strategies, when every block and process size is
\* positive and at least one process was given no block, every block that
\* was given no process is strictly smaller than the largest process left
\* without a block, so externalFragmentation is the total size of the
\* blocks that were given no process.
C26_FreeBlocksTooSmall ==
  (FitReturned /\ PositiveSizes(ret.in) /\ Unplaced(ret.in, ret.out) # {}) =>
     LET free == NeverGiven(ret.in, ret.out)
         largest == MaxOf({ProcSize(ret.in, i) : i \in Unplaced(ret.in, ret.out)})
     IN  /\ \A b \in free : BlockSize(ret.in, b) < largest
         /\ ret.out.externalFragmentation
               = SumOver([b \in free |-> BlockSize(ret.in, b)], free)

\* C26 witness: with positive sizes, one process was given a block, another
\* was given none, and two blocks that were given no process are counted.
C26_Witness ==
  /\ FitReturned
  /\ PositiveSizes(ret.in)
  /\ Unplaced(ret.in, ret.out) # {}
  /\ \E i \in FitProcs(ret.in) : Placed(ret.out, i) # NoBlock
  /\ Cardinality(NeverGiven(ret.in, ret.out)) = 2
  /\ ret.out.externalFragmentation = 2

\* C27: after any sequence of form events, max and allocation have exactly
\* numProcesses rows of numResources entries each, available and every
\* request vector have numResources entries, and every request's processId
\* is in 0..numProcesses-1; so whatever handleSubmit hands to onSubmit, and
\* so to runBankersAlgorithm, has these same matching dimensions.
C27_FormDimensions ==
  ("numProcesses" \in DOMAIN form) =>
    /\ form.numProcesses >= 1
    /\ form.numResources >= 1
    /\ Len(form.max) = form.numProcesses
    /\ Len(form.allocation) = form.numProcesses
    /\ \A i \in 1..form.numProcesses :
         /\ Len(form.max[i]) = form.numResources
         /\ Len(form.allocation[i]) = form.numResources
    /\ Len(form.available) = form.numResources
    /\ \A k \in 1..Len(form.requests) :
         /\ Len(form.requests[k].request) = form.numResources
         /\ form.requests[k].processId \in 0..(form.numProcesses - 1)
    /\ \A k \in 1..Len(form.submitted) :
         LET d == form.submitted[k]
         IN  /\ Shaped(d)
             /\ Len(d.max) = form.numProcesses
             /\ Len(d.available) = form.numResources
             /\ \A q \in 1..Len(d.requests) :
                  /\ Len(d.requests[q].request) = Len(d.available)
                  /\ d.requests[q].processId \in Procs(d)

\* C27 witness: after the form was cut to two processes and two resources,
\* with requests of processes 0 and 1, a submit has handed out data with an
\* allocated unit.
C27_Witness ==
  /\ "numProcesses" \in DOMAIN form
  /\ form.numProcesses = 2
  /\ form.numResources = 2
  /\ Len(form.requests) = 2
  /\ form.requests[1].processId = 0
  /\ form.requests[2].processId = 1
  /\ Len(form.submitted) = 1
  /\ \E i \in 1..2, j \in 1..2 : form.submitted[1].allocation[i][j] = 1

====
